---- MODULE Spec2Model ----
(***************************************************************************)
(* picalc: estimate pi from the lattice points of a quarter disk on an     *)
(* N x N grid.  The host (src/src/main.rs, run) parses N, acquires a wgpu  *)
(* device, creates 8 "squares" (a storage buffer, a read buffer and an     *)
(* offset each), records 8 kernel dispatches and 8 buffer copies into one  *)
(* command encoder, submits it, requests 8 asynchronous maps, polls until  *)
(* the device is done, sums each mapped read buffer and folds the sums     *)
(* through a fixed 8 x 8 weight table into the numerator of the estimate.  *)
(*                                                                         *)
(* `size` is a usize (64 bits); the sizes handed to the device and to the  *)
(* squares are u32.  Their arithmetic is modelled at its width: a product, *)
(* sum or difference that does not fit panics in a build with overflow     *)
(* checks (cargo's dev profile) and wraps in a build without them (the     *)
(* release profile); a cast `as u32` truncates in both.                    *)
(*                                                                         *)
(* The compute shader (compute.wgsl) is not part of the sources at hand;   *)
(* its per-invocation behaviour is taken from the design document.         *)
(***************************************************************************)
EXTENDS Integers, Sequences, FiniteSets

VARIABLES
    pc,             \* position of the host in run()
    arg,            \* args().nth(1): None or a sequence of characters
    overflowChecks, \* the build panics on integer overflow (dev) or wraps (release)
    size,           \* `size` of run() (usize), 0 until parsed
    instance,       \* wgpu::Instance created
    adapter,        \* adapter acquired
    device,         \* device and queue acquired
    sizeBuffer,     \* contents of the "Size Buffer" (two u32), << >> until created
    commonSize,     \* common_opts.size (u32), << >> until built
    offsets,        \* offset of each square (two u32)
    storage,        \* storage_buffer of each square (see ZeroBuffer)
    read,           \* read_buffer of each square (see ZeroBuffer)
    encoder,        \* commands recorded in the CommandEncoder
    queue,          \* commands submitted to the queue
    executed,       \* indices of `queue` the device has completed
    retired,        \* kernel invocations run, counted in issue order: every
                    \* invocation issued before this position has run
    ahead,          \* issue positions beyond `retired` that have run already
    mapState,       \* per square: "unmapped", "pending", "mapped"
    totals,         \* the Vec `squares` of line 241, one u32 per get_total
    cell,           \* number of cells of the weight table already summed
    total,          \* running value of `total` (u32)
    stdout,         \* lines printed
    failures,       \* kinds of backend steps that failed in this run
    panic           \* message of the panic that ended the run, or ""

vars == <<pc, arg, overflowChecks, size, instance, adapter, device, sizeBuffer,
          commonSize, offsets, storage, read, encoder, queue, executed,
          retired, ahead, mapState, totals, cell, total, stdout, failures, panic>>

----------------------------------------------------------------------------
(* Bounds of the exploration                                               *)

\* Largest block side B = N/8 enumerated by the table specification.
MaxBlockSide == 8

\* Kernel invocations the device keeps in flight: an invocation may run ahead
\* of at most MaxInFlight - 1 invocations issued before it.
MaxInFlight == 2

----------------------------------------------------------------------------
(* Program constants                                                       *)

None == <<"None">>

DefaultSize == 1024

SquaresPer == 8

TileSize == 16

U32Bytes == 4

\* wgpu::Limits::default(): max_storage_buffer_binding_size (128 MiB).
MaxStorageBufferBindingSize == 134217728

Squares == 0 .. 7

\* The list of blocks with its fifth entry one block lower.
SquareBlocksShifted ==
    <<  <<7, 0>>, <<7, 1>>, <<7, 2>>, <<7, 3>>,
        <<6, 2>>, <<6, 4>>, <<6, 5>>, <<5, 5>>  >>

\* The block coordinates handed to Square::new, in order.
SquareBlocks ==
    <<  <<7, 0>>, <<7, 1>>, <<7, 2>>, <<7, 3>>,
        <<6, 3>>, <<6, 4>>, <<6, 5>>, <<5, 5>>  >>

----------------------------------------------------------------------------
(* Natural numbers as sequences of bytes, least significant first.  The    *)
(* operators below are exact (the result grows as needed); a machine       *)
(* integer is the low 8 (usize, u64) or 4 (u32) bytes of the exact result, *)
(* and the operation overflows when the exact result has more.             *)
(* Each operator binds the values of its arguments once (xv \in {x}), so   *)
(* that its cost does not depend on how often the body mentions them.      *)

Byte == 256

RECURSIVE NatOf(_)
\* The bytes of the integer k >= 0.
NatOf(k) ==
    CHOOSE r \in
        { IF kv = 0 THEN << >> ELSE << kv % Byte >> \o NatOf(kv \div Byte) :
            kv \in {k} } : TRUE

RECURSIVE NatVal(_)
\* The integer of the bytes x; defined for values below 2^31.
NatVal(x) ==
    CHOOSE r \in
        { IF xv = << >> THEN 0 ELSE Head(xv) + Byte * NatVal(Tail(xv)) :
            xv \in {x} } : TRUE

RECURSIVE Low(_, _)
\* The k low bytes of x.
Low(x, k) ==
    CHOOSE r \in
        { IF k = 0 THEN << >>
          ELSE IF xv = << >> THEN << 0 >> \o Low(xv, k - 1)
          ELSE << Head(xv) >> \o Low(Tail(xv), k - 1) :
            xv \in {x} } : TRUE

\* x has no set bit beyond its k low bytes.
Fits(x, k) == \E xv \in {x} : \A i \in 1 .. Len(xv) : i > k => xv[i] = 0

\* x is below 2^31.
FitsInt(x) == \E xv \in {x} : Fits(xv, 4) /\ (Len(xv) >= 4 => xv[4] < Byte \div 2)

IsZero(x) == \E xv \in {x} : \A i \in 1 .. Len(xv) : xv[i] = 0

\* x and y denote the same number.
NatEq(x, y) ==
    \E xv \in {x} : \E yv \in {y} :
        Low(xv, Len(xv) + Len(yv)) = Low(yv, Len(xv) + Len(yv))

RECURSIVE NatAdd(_, _, _)
\* x + y + c.
NatAdd(x, y, c) ==
    CHOOSE r \in
        { IF xv = << >> /\ yv = << >> THEN NatOf(cv)
          ELSE LET a == IF xv = << >> THEN 0 ELSE Head(xv)
                   b == IF yv = << >> THEN 0 ELSE Head(yv)
               IN  << (a + b + cv) % Byte >>
                      \o NatAdd(IF xv = << >> THEN xv ELSE Tail(xv),
                                IF yv = << >> THEN yv ELSE Tail(yv),
                                (a + b + cv) \div Byte) :
            xv \in {x}, yv \in {y}, cv \in {c} } : TRUE

RECURSIVE NatScale(_, _, _)
\* x * m + c for an integer factor m below 2^22.
NatScale(x, m, c) ==
    CHOOSE r \in
        { IF xv = << >> THEN NatOf(cv)
          ELSE << (Head(xv) * m + cv) % Byte >>
                  \o NatScale(Tail(xv), m, (Head(xv) * m + cv) \div Byte) :
            xv \in {x}, cv \in {c} } : TRUE

RECURSIVE NatMul(_, _)
\* x * y.
NatMul(x, y) ==
    CHOOSE r \in
        { IF xv = << >> THEN << >>
          ELSE NatAdd(NatScale(yv, Head(xv), 0),
                      << 0 >> \o NatMul(Tail(xv), yv), 0) :
            xv \in {x}, yv \in {y} } : TRUE

RECURSIVE NatDivRem(_, _)
\* << x div m, x mod m >> for an integer divisor m below 2^22.
NatDivRem(x, m) ==
    CHOOSE r \in
        { IF xv = << >> THEN << << >>, 0 >>
          ELSE CHOOSE q \in
                { << << (up[2] * Byte + Head(xv)) \div m >> \o up[1],
                     (up[2] * Byte + Head(xv)) % m >> :
                    up \in {NatDivRem(Tail(xv), m)} } : TRUE :
            xv \in {x} } : TRUE

NatDiv(x, m) == NatDivRem(x, m)[1]

NatRem(x, m) == NatDivRem(x, m)[2]

RECURSIVE NatPred(_)
\* x - 1 for x > 0.
NatPred(x) ==
    CHOOSE r \in
        { IF xv = << >> THEN << >>
          ELSE IF Head(xv) > 0 THEN << Head(xv) - 1 >> \o Tail(xv)
          ELSE << Byte - 1 >> \o NatPred(Tail(xv)) :
            xv \in {x} } : TRUE

\* A usize (u64) and a u32 of a given integer value.
Usize(k) == Low(NatOf(k), 8)

ToU32(k) == Low(NatOf(k), 4)

\* Value of a u32 below 2^31.
U32Val(a) == NatVal(a)

\* `a + b` on u32: the wrapped sum, and whether the exact sum overflows.
AddU32(a, b) == Low(NatAdd(a, b, 0), 4)

AddU32Overflows(a, b) == ~Fits(NatAdd(a, b, 0), 4)

----------------------------------------------------------------------------
(* Argument parsing: str::parse::<usize>                                   *)

Digits == << "0", "1", "2", "3", "4", "5", "6", "7", "8", "9" >>

IsDigit(c) == \E d \in 1 .. 10 : Digits[d] = c

DigitVal(c) == (CHOOSE d \in 1 .. 10 : Digits[d] = c) - 1

RECURSIVE DecimalValue(_, _)
\* Left-to-right accumulation of the digits of s onto acc (exact).
DecimalValue(s, acc) ==
    CHOOSE r \in
        { IF sv = << >> THEN av
          ELSE DecimalValue(Tail(sv), NatScale(av, 10, DigitVal(Head(sv)))) :
            sv \in {s}, av \in {acc} } : TRUE

ParseError == << 0 - 1 >>

\* usize::from_str: an optional leading "+", then one or more decimal
\* digits; anything else (empty, a lone sign, "-", a non-digit) is an error,
\* and so is a numeral above usize::MAX = 2^64 - 1, on which the checked
\* multiply-and-add of the parser overflows (PosOverflow).
ParseUsize(s) ==
    LET body == IF s # << >> /\ Head(s) = "+" THEN Tail(s) ELSE s
    IN  IF body = << >> THEN ParseError
        ELSE IF \E k \in 1 .. Len(body) : ~IsDigit(body[k]) THEN ParseError
        ELSE IF ~Fits(DecimalValue(body, << >>), 8) THEN ParseError
        ELSE Low(DecimalValue(body, << >>), 8)

----------------------------------------------------------------------------
(* Sizes derived from `size` (n: the usize; sz: a u32)                      *)

\* `size as u32`: the first word of the Size Buffer (line 176) and
\* common_opts.size (line 201).
Size32(n) == Low(n, 4)

\* `(size / 8) as u32`: s of line 207, and the second word of the Size
\* Buffer (line 176).
BlockSide(n) == Low(NatDiv(n, 8), 4)

\* The contents of the Size Buffer (line 176).
Options(n) == << Size32(n), BlockSide(n) >>

\* `(size / 8) * (size / 8)` of line 243 overflows usize.
FullOverflows(n) == ~Fits(NatMul(NatDiv(n, 8), NatDiv(n, 8)), 8)

\* `full` of line 243: the usize product, wrapped, cast to u32.
FullCount(n) == Low(Low(NatMul(NatDiv(n, 8), NatDiv(n, 8)), 8), 4)

\* size_of::<u32>() * size / 8 * size / 8 of lines 162 and 169, in usize,
\* evaluated left to right: one of the two products overflows.
BufferBytesOverflows(n) ==
    \/ ~Fits(NatScale(n, U32Bytes, 0), 8)
    \/ ~Fits(NatMul(NatDiv(Low(NatScale(n, U32Bytes, 0), 8), 8), n), 8)

\* Byte size of the storage and read buffer descriptors (lines 162, 169),
\* each product wrapped to 64 bits.
BufferBytes(n) ==
    LET quarter == NatDiv(Low(NatScale(n, U32Bytes, 0), 8), 8)
    IN  Low(NatDiv(Low(NatMul(quarter, n), 8), 8), 8)

\* Square::new under the device's default limits: the storage buffer is
\* bound whole (as_entire_binding), so its size must be positive and at most
\* max_storage_buffer_binding_size, or bind group creation is a validation
\* error, which the default error handler turns into a panic.
SquareBuffersAccepted(n) ==
    /\ ~IsZero(BufferBytes(n))
    /\ FitsInt(BufferBytes(n))
    /\ NatVal(BufferBytes(n)) <= MaxStorageBufferBindingSize

\* Whole u32 elements of a buffer of size n.
BufferLen(n) == NatVal(BufferBytes(n)) \div U32Bytes

\* bytemuck::cast_slice of the mapped bytes to &[u32] (line 108) succeeds
\* only if their length is a multiple of 4; otherwise it panics.
CastableToU32(n) == NatRem(BufferBytes(n), U32Bytes) = 0

\* A buffer is its size in bytes (a u64) and its nonzero u32 elements, a
\* function from their indices; every other element is 0.  create_buffer
\* (lines 43-48) returns a buffer of the descriptor's size, zero-initialised.
ZeroBuffer(n) == [size |-> BufferBytes(n), nz |-> [k \in {} |-> 0]]

\* The buffer buf has a whole u32 element of index k.
HasElem(buf, k) ==
    \E elems \in {NatDiv(buf.size, U32Bytes)} :
        ~FitsInt(elems) \/ k < NatVal(elems)

\* Element k of the buffer buf.
Elem(buf, k) == IF k \in DOMAIN buf.nz THEN buf.nz[k] ELSE 0

\* The buffer buf with v stored at element k.
Put(buf, k, v) ==
    [buf EXCEPT !.nz =
        [j \in (IF v = 0 THEN DOMAIN @ \ {k} ELSE DOMAIN @ \cup {k}) |->
            IF j = k THEN v ELSE @[j]]]

\* Workgroups per axis of Square::compute (lines 78-79), sz = self.size.
Workgroups(sz) == NatVal(NatDiv(sz, SquaresPer * TileSize))

\* self.size / squares_per * self.size / squares_per * 4 of Square::copy
\* (lines 90-91), in u32, left to right: one of the two products overflows.
CopyBytesOverflows(sz) ==
    \/ ~Fits(NatMul(NatDiv(sz, SquaresPer), sz), 4)
    \/ ~Fits(NatScale(NatDiv(Low(NatMul(NatDiv(sz, SquaresPer), sz), 4),
                             SquaresPer), U32Bytes, 0), 4)

\* Byte count of Square::copy (lines 90-91), each product wrapped to 32 bits.
CopyBytes(sz) ==
    LET row == Low(NatMul(NatDiv(sz, SquaresPer), sz), 4)
    IN  Low(NatScale(NatDiv(row, SquaresPer), U32Bytes, 0), 4)

\* [x[0] * s, x[1] * s] of line 218 for square i, in u32, wrapped.
Offset(s, i) ==
    << Low(NatScale(s, SquareBlocks[i + 1][1], 0), 4),
       Low(NatScale(s, SquareBlocks[i + 1][2], 0), 4) >>

\* One of the products of line 218 overflows u32.  The first to do so is
\* 7 * s of the first square, before any Square::new.
OffsetOverflows(s) ==
    \E i \in Squares : \E c \in 1 .. 2 :
        ~Fits(NatScale(s, SquareBlocks[i + 1][c], 0), 4)

----------------------------------------------------------------------------
(* The kernel                                                              *)

\* Circle predicate: (x, y) lies in the quarter disk of radius r.
Inside(x, y, r) == x * x + y * y <= r * r

\* The invocation with global id (gx, gy) of a dispatch over the buffer buf of
\* a square with offset off, the Size Buffer holding opts = << N, B >>: it
\* writes the predicate of the point off + (gx, gy) for radius N - 1 at
\* position gy * B + gx, its own cell, and touches nothing else.
InvocationWrite(buf, opts, off, gx, gy) ==
    LET side == NatVal(opts[2])
    IN  IF gx < side /\ gy < side /\ HasElem(buf, gy * side + gx)
        THEN Put(buf, gy * side + gx,
                 IF Inside(NatVal(off[1]) + gx, NatVal(off[2]) + gy,
                           NatVal(opts[1]) - 1)
                 THEN 1 ELSE 0)
        ELSE buf

RECURSIVE RunInvocations(_, _, _, _, _)
\* The invocations i, i + 1, ... of a dispatch of reach x reach invocations,
\* run one after the other in row order.
RunInvocations(buf, opts, off, reach, i) ==
    IF i >= reach * reach THEN buf
    ELSE RunInvocations(InvocationWrite(buf, opts, off, i % reach, i \div reach),
                        opts, off, reach, i + 1)

\* One dispatch of `groups` x `groups` workgroups of TileSize x TileSize
\* invocations, every invocation run.
KernelResult(buf, opts, off, groups) ==
    RunInvocations(buf, opts, off, groups * TileSize, 0)

\* copy_buffer_to_buffer of the first `bytes` bytes of src over dst.
CopyResult(src, dst, bytes) ==
    LET n      == NatVal(NatDiv(bytes, U32Bytes))
        copied == { k \in DOMAIN src.nz : k < n /\ HasElem(dst, k) }
        kept   == { k \in DOMAIN dst.nz : ~(k < n /\ HasElem(src, k)) }
    IN  [dst EXCEPT !.nz =
            [k \in copied \cup kept |->
                IF k \in copied THEN src.nz[k] ELSE dst.nz[k]]]

RECURSIVE SumOver(_, _)
\* Sum of the elements of f at the indices of the set ks.
SumOver(f, ks) ==
    CHOOSE r \in
        { IF kv = {} THEN 0
          ELSE CHOOSE t \in { f[k] + SumOver(f, kv \ {k}) :
                                k \in {CHOOSE j \in kv : TRUE} } : TRUE
          : kv \in {ks} } : TRUE

\* Square::get_total: the u32 sum of the mapped read buffer.  Every element
\* is 0 or 1 and a buffer holds fewer than 2^31 of them, so the sum is exact.
GetTotalOf(buf) == ToU32(SumOver(buf.nz, DOMAIN buf.nz))

----------------------------------------------------------------------------
(* The weight table of lines 247-256                                       *)

F == << "full" >>

Z == << "zero" >>

S(i) == << "sq", i >>

\* The table with block (6, 4) summed as `full` instead of squares[5].
WeightTableFullAt64 ==
    <<  << F,    F,    F,    F,    F,    F,    F,    S(0) >>,
        << F,    F,    F,    F,    F,    F,    F,    S(1) >>,
        << F,    F,    F,    F,    F,    F,    F,    S(2) >>,
        << F,    F,    F,    F,    F,    F,    S(4), S(3) >>,
        << F,    F,    F,    F,    F,    F,    F,    Z    >>,
        << F,    F,    F,    F,    F,    S(7), S(6), Z    >>,
        << F,    F,    F,    S(4), S(5), S(6), Z,    Z    >>,
        << S(0), S(1), S(2), S(3), Z,    Z,    Z,    Z    >>  >>

\* Row by, column bx, in the order the expression adds the terms.
WeightTable ==
    <<  << F,    F,    F,    F,    F,    F,    F,    S(0) >>,
        << F,    F,    F,    F,    F,    F,    F,    S(1) >>,
        << F,    F,    F,    F,    F,    F,    F,    S(2) >>,
        << F,    F,    F,    F,    F,    F,    S(4), S(3) >>,
        << F,    F,    F,    F,    F,    F,    S(5), Z    >>,
        << F,    F,    F,    F,    F,    S(7), S(6), Z    >>,
        << F,    F,    F,    S(4), S(5), S(6), Z,    Z    >>,
        << S(0), S(1), S(2), S(3), Z,    Z,    Z,    Z    >>  >>

Weight(bx, by) == WeightTable[by + 1][bx + 1]

\* The k-th term of the sum, k in 0 .. 63.
Term(k, full, sq) ==
    LET w == Weight(k % 8, k \div 8)
    IN  IF w = F THEN full
        ELSE IF w = Z THEN ToU32(0)
        ELSE sq[w[2] + 1]

\* `(total as u64) * 4` of line 258; a u32 times 4 fits 64 bits.
Numerator(t) == Low(NatScale(Low(t, 8), 4, 0), 8)

\* `size - 1` of line 258 in usize, wrapped: 0 - 1 is usize::MAX.
SizeMinusOne(n) == IF IsZero(n) THEN Low(NatPred(<< 0, 0, 0, 0, 0, 0, 0, 0, 1 >>), 8)
                   ELSE NatPred(n)

\* The subtraction or the product of `(size - 1) * (size - 1)` overflows.
DenominatorOverflows(n) ==
    \/ IsZero(n)
    \/ ~Fits(NatMul(SizeMinusOne(n), SizeMinusOne(n)), 8)

\* `(size - 1) * (size - 1)` of line 258 in usize, wrapped to 64 bits.
Denominator(n) == Low(NatMul(SizeMinusOne(n), SizeMinusOne(n)), 8)

----------------------------------------------------------------------------
(* Commands and scheduling                                                 *)

Dispatch(sz, i) == [op |-> "dispatch", sq |-> i, n |-> Workgroups(sz)]

Copy(sz, i) == [op |-> "copy", sq |-> i, bytes |-> CopyBytes(sz)]

\* The compute pass of lines 222-230: one dispatch per square, in order.
ComputePass(sz) == [j \in 1 .. 8 |-> Dispatch(sz, j - 1)]

\* The copies of lines 231-233, in order.
CopyCommands(sz) == [j \in 1 .. 8 |-> Copy(sz, j - 1)]

\* Invocations per axis of the dispatch c: its workgroups times the tile.
Reach(c) == c.n * TileSize

\* Invocations of the command c; a copy has none.
InvocationCount(c) == IF c.op = "dispatch" THEN Reach(c) * Reach(c) ELSE 0

RECURSIVE IssueStart(_, _)
\* Issue position of the first invocation of the command at position k of q:
\* the device issues the invocations of a command buffer in recording order,
\* those of one dispatch in row order.
IssueStart(q, k) ==
    IF k <= 1 THEN 0
    ELSE IssueStart(q, k - 1) + InvocationCount(q[k - 1])

\* Number of invocations of the commands of q.
IssueTotal(q) == IssueStart(q, Len(q) + 1)

\* Every invocation of the command at position k of q is below position low.
AllRetired(q, k, low) == IssueStart(q, k) + InvocationCount(q[k]) <= low

RECURSIVE Locate(_, _, _)
\* The invocation rest positions past the first of the command at position k
\* of q: its dispatch and its global id (gx, gy), row after row.
Locate(q, k, rest) ==
    IF rest < InvocationCount(q[k])
    THEN [k |-> k, gx |-> rest % Reach(q[k]), gy |-> rest \div Reach(q[k])]
    ELSE Locate(q, k + 1, rest - InvocationCount(q[k]))

\* The invocation at issue position idx < IssueTotal(q).
InvocationAt(q, idx) == Locate(q, 1, idx)

\* Retirement that passes over the positions overtaken: an invocation that
\* others ran ahead of is counted as run and never runs.
NextRetiredPastOvertaken(low, done) ==
    CHOOSE m \in low .. low + MaxInFlight :
        /\ m \notin done
        /\ \A i \in done : i < m

\* The first issue position from low on that is not in the set done: the
\* device runs every invocation of a dispatch, each once.
NextRetired(low, done) ==
    CHOOSE m \in low .. low + Cardinality(done) :
        /\ m \notin done
        /\ \A i \in low .. m - 1 : i \in done

\* The host process is alive.
Running == pc \notin {"aborted", "done"}

\* A dispatch the device has not completed.  The dispatches of one compute
\* pass carry no dependency on one another.
DispatchReady(k) ==
    /\ k \in 1 .. Len(queue)
    /\ k \notin executed
    /\ queue[k].op = "dispatch"

\* A copy free to start before the commands recorded ahead of it completed.
CopyReadyUnordered(k) ==
    /\ k \in 1 .. Len(queue)
    /\ k \notin executed
    /\ queue[k].op = "copy"

\* A copy follows the compute pass in the same command buffer: the device
\* starts it only when every command recorded before it has completed.
CopyReady(k) ==
    /\ k \in 1 .. Len(queue)
    /\ k \notin executed
    /\ queue[k].op = "copy"
    /\ \A j \in 1 .. k - 1 : j \in executed

\* Idle as soon as the dispatches are through, copies still outstanding.
DeviceIdleAfterDispatches ==
    \A k \in 1 .. Len(queue) : queue[k].op = "dispatch" => k \in executed

\* Every submitted command has completed.
DeviceIdle == executed = 1 .. Len(queue)

\* instance.poll_all(true): the map callbacks run, and the call returns, only
\* once every submitted command has completed.
PollComplete == DeviceIdle

\* A callback that drops the error and lets the run go on.
AfterMapErrorContinue(p) == p

\* e.unwrap() in the map_async callback: an error panics.
AfterMapError(p) == "aborted"

\* Number of squares whose map has been requested (they are requested in order).
MapsRequested == Cardinality({i \in Squares : mapState[i] # "unmapped"})

----------------------------------------------------------------------------
(* Inputs                                                                  *)

\* Command lines explored: no well-formed number, zero, sizes divisible by 8
\* (the documented precondition, 128 being the smallest that dispatches a
\* workgroup), one size that is not (12), one size beyond
\* the device limits (46344), one whose offsets overflow u32 (5000000000),
\* one whose buffer size overflows usize (2^62 + 8 = 4611686018427387912),
\* and two numerals above usize::MAX.
\* A run without argument (N = 1024, buffers of 16384 elements) and sizes
\* whose wrapped buffer size is large (6074001000: 36368548 bytes) are not
\* enumerated.
ArgSamples ==
    {   << "a", "b", "c" >>,
        << >>,
        << "-", "8" >>,
        << "8", "x" >>,
        << "+" >>,
        << "0" >>,
        << "8" >>,
        << "+", "8" >>,
        << "1", "2" >>,
        << "1", "6" >>,
        << "1", "2", "8" >>,
        << "4", "6", "3", "4", "4" >>,
        << "5", "0", "0", "0", "0", "0", "0", "0", "0", "0" >>,
        << "4", "6", "1", "1", "6", "8", "6", "0", "1", "8",
           "4", "2", "7", "3", "8", "7", "9", "1", "2" >>,
        << "1", "8", "4", "4", "6", "7", "4", "4", "0", "7",
           "3", "7", "0", "9", "5", "5", "1", "6", "1", "6" >>,
        << "9", "9", "9", "9", "9", "9", "9", "9", "9", "9", "9", "9",
           "9", "9", "9", "9", "9", "9", "9", "9", "9", "9", "9" >>  }

----------------------------------------------------------------------------
(* The run                                                                 *)

Init ==
    /\ pc = "parse"
    /\ arg \in ArgSamples
    /\ overflowChecks \in BOOLEAN
    /\ size = Usize(0)
    /\ instance = FALSE
    /\ adapter = FALSE
    /\ device = FALSE
    /\ sizeBuffer = << >>
    /\ commonSize = << >>
    /\ offsets = << >>
    /\ storage = << >>
    /\ read = << >>
    /\ encoder = << >>
    /\ queue = << >>
    /\ executed = {}
    /\ retired = 0
    /\ ahead = {}
    /\ mapState = [i \in Squares |-> "unmapped"]
    /\ totals = << >>
    /\ cell = 0
    /\ total = ToU32(0)
    /\ stdout = << >>
    /\ failures = {}
    /\ panic = ""

\* Lines 132-135.
ParseArgs ==
    /\ pc = "parse"
    /\ LET n == IF arg = None THEN Usize(DefaultSize) ELSE ParseUsize(arg)
       IN  \/ /\ n = ParseError
              /\ panic' = "Bad Arg Format"
              /\ pc' = "aborted"
              /\ size' = size
           \/ /\ n # ParseError
              /\ size' = n
              /\ pc' = "instance"
              /\ panic' = panic
    /\ UNCHANGED <<arg, overflowChecks, instance, adapter, device, sizeBuffer,
                   commonSize, offsets, storage, read, encoder, queue,
                   executed, retired, ahead, mapState, totals, cell, total, stdout, failures>>

\* Lines 137-139.
CreateInstance ==
    /\ pc = "instance"
    /\ instance' = TRUE
    /\ pc' = "adapter"
    /\ UNCHANGED <<arg, overflowChecks, size, adapter, device, sizeBuffer,
                   commonSize, offsets, storage, read, encoder, queue,
                   executed, retired, ahead, mapState, totals, cell, total, stdout, failures,
                   panic>>

\* Lines 141-144: request_adapter(...).await.unwrap().
RequestAdapter ==
    /\ pc = "adapter"
    /\ \/ /\ adapter' = TRUE
          /\ pc' = "device"
          /\ UNCHANGED <<failures, panic>>
       \/ /\ failures' = failures \cup {"adapter"}
          /\ panic' = "unwrap on None"
          /\ pc' = "aborted"
          /\ adapter' = adapter
    /\ UNCHANGED <<arg, overflowChecks, size, instance, device, sizeBuffer,
                   commonSize, offsets, storage, read, encoder, queue,
                   executed, retired, ahead, mapState, totals, cell, total, stdout>>

\* Lines 146-156: request_device(...).await.unwrap().
RequestDevice ==
    /\ pc = "device"
    /\ \/ /\ device' = TRUE
          /\ pc' = "setup"
          /\ UNCHANGED <<failures, panic>>
       \/ /\ failures' = failures \cup {"device"}
          /\ panic' = "unwrap on Err"
          /\ pc' = "aborted"
          /\ device' = device
    /\ UNCHANGED <<arg, overflowChecks, size, instance, adapter, sizeBuffer,
                   commonSize, offsets, storage, read, encoder, queue,
                   executed, retired, ahead, mapState, totals, cell, total, stdout>>

\* Lines 158-205: shader module, buffer descriptors, Size Buffer, pipeline,
\* bind group 0 and the options shared by the squares.  The buffer size of
\* line 162 is computed first: with overflow checks its overflow panics
\* there; without, it wraps.  The Size Buffer and common_opts.size take
\* `size` narrowed to u32.
Setup ==
    /\ pc = "setup"
    /\ \/ /\ overflowChecks
          /\ BufferBytesOverflows(size)
          /\ panic' = "attempt to multiply with overflow"
          /\ pc' = "aborted"
          /\ UNCHANGED <<sizeBuffer, commonSize>>
       \/ /\ ~(overflowChecks /\ BufferBytesOverflows(size))
          /\ sizeBuffer' = Options(size)
          /\ commonSize' = Size32(size)
          /\ pc' = "squares"
          /\ panic' = panic
    /\ UNCHANGED <<arg, overflowChecks, size, instance, adapter, device,
                   offsets, storage, read, encoder, queue, executed, retired, ahead, mapState,
                   totals, cell, total, stdout, failures>>

\* Lines 207-218: s and the 8 calls of Square::new.  Square::new (lines
\* 31-73) creates the offset buffer, the storage buffer and the read buffer,
\* then the bind group.  The eight squares share the buffer descriptors: a
\* size the bind group rejects is rejected in the first call, when the three
\* buffers of square 0 exist and no other square does.
CreateSquares ==
    /\ pc = "squares"
    /\ LET s == BlockSide(size)
       IN  \/ /\ overflowChecks
              /\ OffsetOverflows(s)
              /\ panic' = "attempt to multiply with overflow"
              /\ pc' = "aborted"
              /\ UNCHANGED <<offsets, storage, read, failures>>
           \/ /\ ~(overflowChecks /\ OffsetOverflows(s))
              /\ SquareBuffersAccepted(size)
              /\ offsets' = [i \in Squares |-> Offset(s, i)]
              /\ storage' = [i \in Squares |-> ZeroBuffer(size)]
              /\ read' = [i \in Squares |-> ZeroBuffer(size)]
              /\ pc' = "encode_compute"
              /\ UNCHANGED <<failures, panic>>
           \/ /\ ~(overflowChecks /\ OffsetOverflows(s))
              /\ ~SquareBuffersAccepted(size)
              /\ offsets' = [i \in {0} |-> Offset(s, i)]
              /\ storage' = [i \in {0} |-> ZeroBuffer(size)]
              /\ read' = [i \in {0} |-> ZeroBuffer(size)]
              /\ failures' = failures \cup {"buffer"}
              /\ panic' = "validation error"
              /\ pc' = "aborted"
    /\ UNCHANGED <<arg, overflowChecks, size, instance, adapter, device,
                   sizeBuffer, commonSize, encoder, queue, executed, retired, ahead, mapState,
                   totals, cell, total, stdout>>

\* Lines 220-230: the compute pass with one Square::compute per square.
EncodeCompute ==
    /\ pc = "encode_compute"
    /\ encoder' = encoder \o ComputePass(commonSize)
    /\ pc' = "encode_copy"
    /\ UNCHANGED <<arg, overflowChecks, size, instance, adapter, device,
                   sizeBuffer, commonSize, offsets, storage, read, queue,
                   executed, retired, ahead, mapState, totals, cell, total, stdout, failures,
                   panic>>

\* Lines 231-233: one Square::copy per square, into the same encoder.
EncodeCopies ==
    /\ pc = "encode_copy"
    /\ \/ /\ overflowChecks
          /\ CopyBytesOverflows(commonSize)
          /\ panic' = "attempt to multiply with overflow"
          /\ pc' = "aborted"
          /\ encoder' = encoder
       \/ /\ ~(overflowChecks /\ CopyBytesOverflows(commonSize))
          /\ encoder' = encoder \o CopyCommands(commonSize)
          /\ pc' = "submit"
          /\ panic' = panic
    /\ UNCHANGED <<arg, overflowChecks, size, instance, adapter, device,
                   sizeBuffer, commonSize, offsets, storage, read, queue,
                   executed, retired, ahead, mapState, totals, cell, total, stdout, failures>>

\* Line 234: queue.submit(Some(encoder.finish())).
Submit ==
    /\ pc = "submit"
    /\ queue' = queue \o encoder
    /\ encoder' = << >>
    /\ pc' = "map"
    /\ UNCHANGED <<arg, overflowChecks, size, instance, adapter, device,
                   sizeBuffer, commonSize, offsets, storage, read, executed, retired, ahead,
                   mapState, totals, cell, total, stdout, failures, panic>>

\* Lines 235-237: Square::map of the next square; it only requests the map.
MapSquare ==
    /\ pc = "map"
    /\ LET i == MapsRequested
       IN  /\ mapState' = [mapState EXCEPT ![i] = "pending"]
           /\ pc' = IF i = 7 THEN "poll" ELSE "map"
    /\ UNCHANGED <<arg, overflowChecks, size, instance, adapter, device,
                   sizeBuffer, commonSize, offsets, storage, read, encoder,
                   queue, executed, retired, ahead, totals, cell, total, stdout, failures,
                   panic>>

\* The device runs one kernel invocation: any of the MaxInFlight invocations
\* in flight that has not run yet, the one at j positions past `retired`.
\* The invocations of one dispatch, and those of neighbouring dispatches of
\* the pass, so run in any order the window allows.  A dispatch completes
\* with the last of its invocations.
ExecInvocation(j) ==
    /\ Running
    /\ retired + j < IssueTotal(queue)
    /\ (retired + j) \notin ahead
    /\ LET inv  == InvocationAt(queue, retired + j)
           sq   == queue[inv.k].sq
           low  == NextRetired(retired, ahead \cup {retired + j})
       IN  /\ storage' = [storage EXCEPT
                   ![sq] = InvocationWrite(@, sizeBuffer, offsets[sq],
                                           inv.gx, inv.gy)]
           /\ retired' = low
           /\ ahead' = { i \in ahead \cup {retired + j} : i > low }
           /\ executed' = executed \cup
                   { k \in 1 .. Len(queue) :
                       /\ InvocationCount(queue[k]) > 0
                       /\ AllRetired(queue, k, low) }
    /\ UNCHANGED <<pc, arg, overflowChecks, size, instance, adapter, device,
                   sizeBuffer, commonSize, offsets, read, encoder, queue,
                   mapState, totals, cell, total, stdout, failures, panic>>

\* The device completes the dispatch at position k of the queue, one of no
\* workgroup: it has no invocation to run and writes nothing.
ExecDispatch(k) ==
    /\ Running
    /\ DispatchReady(k)
    /\ InvocationCount(queue[k]) = 0
    /\ executed' = executed \cup {k}
    /\ UNCHANGED <<pc, arg, overflowChecks, size, instance, adapter, device,
                   sizeBuffer, commonSize, offsets, storage, read, encoder,
                   queue, retired, ahead, mapState, totals, cell, total,
                   stdout, failures, panic>>

\* The device completes the copy at position k of the queue.
ExecCopy(k) ==
    /\ Running
    /\ CopyReady(k)
    /\ LET c == queue[k]
       IN  read' = [read EXCEPT ![c.sq] = CopyResult(storage[c.sq], @, c.bytes)]
    /\ executed' = executed \cup {k}
    /\ UNCHANGED <<pc, arg, overflowChecks, size, instance, adapter, device,
                   sizeBuffer, commonSize, offsets, storage, encoder, queue,
                   retired, ahead, mapState, totals, cell, total, stdout,
                   failures, panic>>

\* A dispatch or a copy fails on the device.  Nothing in run() handles a
\* device error: it reaches the default error handler, which panics.
ExecFail(k) ==
    /\ Running
    /\ DispatchReady(k) \/ CopyReady(k)
    /\ failures' = failures \cup {queue[k].op}
    /\ panic' = "device error"
    /\ pc' = "aborted"
    /\ UNCHANGED <<arg, overflowChecks, size, instance, adapter, device,
                   sizeBuffer, commonSize, offsets, storage, read, encoder,
                   queue, executed, retired, ahead, mapState, totals, cell, total, stdout>>

\* Lines 100-102, run from poll_all: the map of square i succeeded.
MapCallbackOk(i) ==
    /\ pc = "poll"
    /\ PollComplete
    /\ mapState[i] = "pending"
    /\ mapState' = [mapState EXCEPT ![i] = "mapped"]
    /\ UNCHANGED <<pc, arg, overflowChecks, size, instance, adapter, device,
                   sizeBuffer, commonSize, offsets, storage, read, encoder,
                   queue, executed, retired, ahead, totals, cell, total, stdout, failures,
                   panic>>

\* Lines 100-102, run from poll_all: the map of square i failed.
MapCallbackErr(i) ==
    /\ pc = "poll"
    /\ PollComplete
    /\ mapState[i] = "pending"
    /\ mapState' = [mapState EXCEPT ![i] = "failed"]
    /\ failures' = failures \cup {"map"}
    /\ pc' = AfterMapError(pc)
    /\ panic' = IF AfterMapError(pc) = "aborted" THEN "unwrap on Err" ELSE panic
    /\ UNCHANGED <<arg, overflowChecks, size, instance, adapter, device,
                   sizeBuffer, commonSize, offsets, storage, read, encoder,
                   queue, executed, retired, ahead, totals, cell, total, stdout>>

\* Lines 238-239: poll_all(true) returns; "GPU Done!" is printed.
PollReturn ==
    /\ pc = "poll"
    /\ PollComplete
    /\ \A i \in Squares : mapState[i] \in {"mapped", "failed"}
    /\ stdout' = Append(stdout, << "GPU Done!" >>)
    /\ pc' = "read"
    /\ UNCHANGED <<arg, overflowChecks, size, instance, adapter, device,
                   sizeBuffer, commonSize, offsets, storage, read, encoder,
                   queue, executed, retired, ahead, mapState, totals, cell, total, failures,
                   panic>>

\* Line 241: get_total of the next square.
GetTotal ==
    /\ pc = "read"
    /\ \/ /\ CastableToU32(size)
          /\ LET i == Len(totals)
             IN  /\ totals' = Append(totals, GetTotalOf(read[i]))
                 /\ pc' = IF i = 7 THEN "aggregate" ELSE "read"
          /\ panic' = panic
       \/ /\ ~CastableToU32(size)
          /\ panic' = "cast_slice: output slice would have slop"
          /\ pc' = "aborted"
          /\ totals' = totals
    /\ UNCHANGED <<arg, overflowChecks, size, instance, adapter, device,
                   sizeBuffer, commonSize, offsets, storage, read, encoder,
                   queue, executed, retired, ahead, mapState, cell, total, stdout, failures>>

\* Lines 243-256: `full` is computed ahead of the first term (line 243);
\* then the next term of the sum is added to `total`.  With overflow checks
\* the overflow of the usize product of `full` or of a u32 addition panics.
AddTerm ==
    /\ pc = "aggregate"
    /\ LET term == Term(cell, FullCount(size), totals)
       IN  \/ /\ overflowChecks
              /\ cell = 0
              /\ FullOverflows(size)
              /\ panic' = "attempt to multiply with overflow"
              /\ pc' = "aborted"
              /\ UNCHANGED <<total, cell>>
           \/ /\ overflowChecks
              /\ ~(cell = 0 /\ FullOverflows(size))
              /\ AddU32Overflows(total, term)
              /\ panic' = "attempt to add with overflow"
              /\ pc' = "aborted"
              /\ UNCHANGED <<total, cell>>
           \/ /\ ~overflowChecks \/ ~AddU32Overflows(total, term)
              /\ ~overflowChecks \/ ~(cell = 0 /\ FullOverflows(size))
              /\ total' = AddU32(total, term)
              /\ cell' = cell + 1
              /\ pc' = IF cell = 63 THEN "print" ELSE "aggregate"
              /\ panic' = panic
    /\ UNCHANGED <<arg, overflowChecks, size, instance, adapter, device,
                   sizeBuffer, commonSize, offsets, storage, read, encoder,
                   queue, executed, retired, ahead, mapState, totals, stdout, failures>>

\* Line 258.  With overflow checks `size - 1` of size 0 and an overflowing
\* product panic before anything is printed.
PrintResult ==
    /\ pc = "print"
    /\ \/ /\ overflowChecks
          /\ DenominatorOverflows(size)
          /\ panic' = IF IsZero(size) THEN "attempt to subtract with overflow"
                      ELSE "attempt to multiply with overflow"
          /\ pc' = "aborted"
          /\ stdout' = stdout
       \/ /\ ~(overflowChecks /\ DenominatorOverflows(size))
          /\ stdout' = Append(stdout,
                              << "pi = ", Numerator(total), Denominator(size) >>)
          /\ pc' = "done"
          /\ panic' = panic
    /\ UNCHANGED <<arg, overflowChecks, size, instance, adapter, device,
                   sizeBuffer, commonSize, offsets, storage, read, encoder,
                   queue, executed, retired, ahead, mapState, totals, cell, total, failures>>

HostNext ==
    \/ ParseArgs
    \/ CreateInstance
    \/ RequestAdapter
    \/ RequestDevice
    \/ Setup
    \/ CreateSquares
    \/ EncodeCompute
    \/ EncodeCopies
    \/ Submit
    \/ MapSquare
    \/ \E i \in Squares : MapCallbackOk(i)
    \/ \E i \in Squares : MapCallbackErr(i)
    \/ PollReturn
    \/ GetTotal
    \/ AddTerm
    \/ PrintResult

DeviceNext ==
    \/ \E j \in 0 .. MaxInFlight - 1 : ExecInvocation(j)
    \/ \E k \in 1 .. Len(queue) : ExecDispatch(k)
    \/ \E k \in 1 .. Len(queue) : ExecCopy(k)
    \/ \E k \in 1 .. Len(queue) : ExecFail(k)

Next == HostNext \/ DeviceNext

Spec == Init /\ [][Next]_vars

----------------------------------------------------------------------------
(* The aggregation on its own: runs taken up at line 243, after the eight  *)
(* get_total calls, for a range of sizes.                                  *)

RECURSIVE DecimalString(_)
\* The decimal digits of the integer k >= 0.
DecimalString(k) ==
    IF k < 10 THEN << Digits[k + 1] >>
    ELSE Append(DecimalString(k \div 10), Digits[(k % 10) + 1])

\* The buffers of size n once the device is idle.
FinalStorage(n) ==
    [i \in Squares |->
        KernelResult(ZeroBuffer(n), Options(n), Offset(BlockSide(n), i),
                     Workgroups(Size32(n)))]

FinalRead(n) ==
    [i \in Squares |->
        CopyResult(FinalStorage(n)[i], ZeroBuffer(n), CopyBytes(Size32(n)))]

\* The state of run() at line 243 for the size of integer value k.
AtAggregation(k) ==
    /\ pc = "aggregate"
    /\ arg = DecimalString(k)
    /\ overflowChecks \in BOOLEAN
    /\ size = Usize(k)
    /\ instance = TRUE
    /\ adapter = TRUE
    /\ device = TRUE
    /\ sizeBuffer = Options(Usize(k))
    /\ commonSize = Size32(Usize(k))
    /\ offsets = [i \in Squares |-> Offset(BlockSide(Usize(k)), i)]
    /\ storage = FinalStorage(Usize(k))
    /\ read = FinalRead(Usize(k))
    /\ encoder = << >>
    /\ queue = ComputePass(Size32(Usize(k))) \o CopyCommands(Size32(Usize(k)))
    /\ executed = 1 .. 16
    /\ retired = IssueTotal(ComputePass(Size32(Usize(k))))
    /\ ahead = {}
    /\ mapState = [i \in Squares |-> "mapped"]
    /\ totals = [j \in 1 .. 8 |-> GetTotalOf(FinalRead(Usize(k))[j - 1])]
    /\ cell = 0
    /\ total = ToU32(0)
    /\ stdout = << << "GPU Done!" >> >>
    /\ failures = {}
    /\ panic = ""

TableSizes == { 8 * b : b \in 1 .. MaxBlockSide }

TableInit == \E k \in TableSizes : AtAggregation(k)

AggNext == AddTerm \/ PrintResult

SpecTable == TableInit /\ [][AggNext]_vars

----------------------------------------------------------------------------
(* Properties                                                              *)

\* The size is below 2^31, and its integer value.
SizeSmall == FitsInt(size)

SizeInt == NatVal(size)

SizeIs(k) == size = Usize(k)

Blocks == (0 .. 7) \X (0 .. 7)

\* The lattice points of block (bx, by) of the grid of side k, B = k / 8.
BlockPoints(k, bx, by) ==
    (bx * (k \div 8) .. (bx + 1) * (k \div 8) - 1)
        \X (by * (k \div 8) .. (by + 1) * (k \div 8) - 1)

\* Brute force: the lattice points of the k x k grid inside the disk.
LatticeCount(k) ==
    Cardinality({ p \in (0 .. k - 1) \X (0 .. k - 1) : Inside(p[1], p[2], k - 1) })

\* The printed result lines.
ResultLines == { j \in 1 .. Len(stdout) : stdout[j][1] = "pi = " }

\* Position in the queue of the command op of square i, 0 if there is none.
QueueIndex(op, i) ==
    IF \E k \in 1 .. Len(queue) : queue[k].op = op /\ queue[k].sq = i
    THEN CHOOSE k \in 1 .. Len(queue) : queue[k].op = op /\ queue[k].sq = i
    ELSE 0

KernelDone(i) == QueueIndex("dispatch", i) \in executed

CopyDone(i) == QueueIndex("copy", i) \in executed

\* C1: for every N divisible by 8, the total run() computes from the weight
\* table equals the brute-force count of the lattice points of the grid
\* inside the disk of radius N - 1 (stated of the sizes below 2^31).
C1_TotalIsLatticeCount ==
    (pc = "done" /\ SizeSmall /\ SizeInt % 8 = 0) =>
        U32Val(total) = LatticeCount(SizeInt)

\* C2: every block whose term is `full` has all its points inside the disk,
\* and every block whose term is 0 has none; stated of the terms summed so far.
C2_FullAndEmptyBlocks ==
    \A k \in 0 .. cell - 1 :
        LET w   == Weight(k % 8, k \div 8)
            pts == BlockPoints(SizeInt, k % 8, k \div 8)
        IN  /\ w = F => \A p \in pts : Inside(p[1], p[2], SizeInt - 1)
            /\ w = Z => \A p \in pts : ~Inside(p[1], p[2], SizeInt - 1)

C2_Witness == pc = "done" /\ SizeIs(64) /\ cell = 64

RECURSIVE ExactSum(_, _, _)
\* The exact value of the first c terms of the sum for size n, a block
\* counted as full contributing (n / 8)^2: a number of any length.
ExactSum(c, n, sq) ==
    IF c = 0 THEN << >>
    ELSE LET w == Weight((c - 1) % 8, (c - 1) \div 8)
         IN  NatAdd(ExactSum(c - 1, n, sq),
                    IF w = F THEN NatMul(NatDiv(n, 8), NatDiv(n, 8))
                    ELSE IF w = Z THEN << >>
                    ELSE sq[w[2] + 1],
                    0)

\* C3: for every N divisible by 8, the result line carries 4 times the exact
\* sum of the 64 terms as its numerator and (N - 1)^2 as its denominator.
C3_ExactRationalPair ==
    \A j \in ResultLines :
        NatRem(size, 8) = 0 =>
            /\ NatEq(stdout[j][2], NatScale(ExactSum(64, size, totals), 4, 0))
            /\ NatEq(stdout[j][3], NatMul(NatPred(size), NatPred(size)))

\* s is a positive decimal integer: an optional "+", digits, not all zero.
IsPositiveDecimal(s) ==
    LET body == IF s # << >> /\ Head(s) = "+" THEN Tail(s) ELSE s
    IN  /\ body # << >>
        /\ \A k \in 1 .. Len(body) : IsDigit(body[k])
        /\ \E k \in 1 .. Len(body) : body[k] # "0"

NoBackendWork ==
    /\ ~instance
    /\ ~adapter
    /\ ~device
    /\ sizeBuffer = << >>
    /\ storage = << >>
    /\ read = << >>
    /\ encoder = << >>
    /\ queue = << >>
    /\ executed = {}
    /\ retired = 0
    /\ ahead = {}
    /\ \A i \in Squares : mapState[i] = "unmapped"

\* C4: an argument that is not a positive decimal integer makes run() report
\* the argument error and stop before any backend work.
C4_BadArgumentStopsBeforeBackend ==
    (arg # None /\ ~IsPositiveDecimal(arg)) =>
        /\ NoBackendWork
        /\ pc \in {"parse", "aborted"}
        /\ pc = "aborted" => panic = "Bad Arg Format"

\* C5: a run in which the adapter, the device, a dispatch, a copy or a map
\* failed is over and prints no result; a result is printed only after all 8
\* dispatches, 8 copies and 8 maps succeeded; no command is issued twice.
C5_FailureIsFatal ==
    /\ failures # {} => (pc = "aborted" /\ ResultLines = {})
    /\ pc = "aborted" => ~ENABLED Next
    /\ ResultLines # {} =>
            /\ failures = {}
            /\ \A i \in Squares :
                    KernelDone(i) /\ CopyDone(i) /\ mapState[i] = "mapped"
    /\ \A j, k \in 1 .. Len(encoder \o queue) :
            ( /\ (encoder \o queue)[j].op = (encoder \o queue)[k].op
              /\ (encoder \o queue)[j].sq = (encoder \o queue)[k].sq ) => j = k

C5_Witness ==
    /\ "map" \in failures
    /\ pc = "aborted"
    /\ \E i \in Squares : mapState[i] = "mapped"
    /\ ResultLines = {}

\* What one square counts for size n: the points inside the disk among those
\* the dispatched workgroups reach, for the offset, the radius and the
\* workgroup count the program derives from n.
SquareCount(n, i) ==
    LET reach == Workgroups(Size32(n)) * TileSize
        ox    == NatVal(Offset(BlockSide(n), i)[1])
        oy    == NatVal(Offset(BlockSide(n), i)[2])
        r     == NatVal(Size32(n)) - 1
    IN  Cardinality({ p \in (0 .. reach - 1) \X (0 .. reach - 1) :
            Inside(ox + p[1], oy + p[2], r) })

SizeTotal(n) ==
    41 * NatVal(FullCount(n))
    + 2 * (SquareCount(n, 0) + SquareCount(n, 1) + SquareCount(n, 2)
           + SquareCount(n, 3) + SquareCount(n, 4) + SquareCount(n, 5)
           + SquareCount(n, 6))
    + SquareCount(n, 7)

\* The buffer of square i for size n once its dispatch is through: the
\* predicate at the points the workgroups reach, 0 elsewhere.
SquarePredicate(n, i) ==
    LET side  == NatVal(BlockSide(n))
        reach == Workgroups(Size32(n)) * TileSize
        ox    == NatVal(Offset(BlockSide(n), i)[1])
        oy    == NatVal(Offset(BlockSide(n), i)[2])
        r     == NatVal(Size32(n)) - 1
    IN  [size |-> BufferBytes(n),
         nz   |-> [k \in { j \in 0 .. BufferLen(n) - 1 :
                            /\ side > 0
                            /\ (j % side) < reach
                            /\ (j \div side) < reach
                            /\ Inside(ox + (j % side), oy + (j \div side), r) }
                    |-> 1]]

\* Issue positions of the invocations that ran last: the MaxInFlight most
\* recently retired and those that ran ahead of `retired`.
RecentlyRun ==
    { idx \in 0 .. retired - 1 : idx >= retired - MaxInFlight } \cup ahead

\* The cell of the invocation at issue position idx holds the predicate of
\* its point.
HoldsItsPredicate(idx) ==
    LET inv  == InvocationAt(queue, idx)
        sq   == queue[inv.k].sq
        side == NatVal(sizeBuffer[2])
    IN  Elem(storage[sq], inv.gy * side + inv.gx)
            = IF Inside(NatVal(offsets[sq][1]) + inv.gx,
                        NatVal(offsets[sq][2]) + inv.gy,
                        NatVal(sizeBuffer[1]) - 1)
              THEN 1 ELSE 0

\* C6: the buffers the device leaves, the per-square counts, the total and
\* the printed ratio depend on N alone: whatever order the kernel invocations
\* ran in, within a dispatch and across dispatches, and whatever order the
\* map callbacks came in, they are the same.  While the kernel runs, every
\* invocation that ran last, in order or ahead of others, has left the
\* predicate of its point in its cell; once the device is idle each buffer
\* is the predicate of its block.
C6_ResultDependsOnSizeOnly ==
    /\ \A idx \in RecentlyRun : HoldsItsPredicate(idx)
    /\ pc = "read" =>
            \A i \in Squares : storage[i] = SquarePredicate(size, i)
    /\ \A i \in Squares :
            i < Len(totals) => U32Val(totals[i + 1]) = SquareCount(size, i)
    /\ pc \in {"print", "done"} => U32Val(total) = SizeTotal(size)
    /\ \A j \in ResultLines :
            /\ stdout[j][2] = Usize(4 * SizeTotal(size))
            /\ stdout[j][3] = Denominator(size)

C6_Witness ==
    /\ pc = "done"
    /\ SizeIs(128)
    /\ retired = 8 * TileSize * TileSize
    /\ ResultLines # {}
    /\ U32Val(total) > 41 * NatVal(FullCount(size))

\* C7: for N divisible by 8, once a dispatch has completed, the storage
\* buffer of its square holds the predicate of every point of the block, all
\* B^2 of them (stated of the sizes below 2^31).
C7_KernelFillsBlock ==
    \A i \in Squares :
        (SizeSmall /\ SizeInt % 8 = 0 /\ KernelDone(i)) =>
            LET side == SizeInt \div 8
            IN  \A ly \in 0 .. side - 1 : \A lx \in 0 .. side - 1 :
                    Elem(storage[i], ly * side + lx)
                        = IF Inside(SquareBlocks[i + 1][1] * side + lx,
                                    SquareBlocks[i + 1][2] * side + ly,
                                    SizeInt - 1)
                          THEN 1 ELSE 0

\* The corner rule of the partition planner, for the grid of side k.
CornerClass(k, bx, by) ==
    LET side == k \div 8
    IN  IF Inside((bx + 1) * side - 1, (by + 1) * side - 1, k - 1) THEN "Full"
        ELSE IF ~Inside(bx * side, by * side, k - 1) THEN "Empty"
        ELSE "Boundary"

TableClass(bx, by) ==
    IF Weight(bx, by) = F THEN "Full"
    ELSE IF Weight(bx, by) = Z THEN "Empty"
    ELSE "Boundary"

ComputedBlocks == { SquareBlocks[j] : j \in 1 .. 8 }

TableMatchesCornerRule(k) ==
    /\ \A b \in Blocks : CornerClass(k, b[1], b[2]) = TableClass(b[1], b[2])
    /\ \A b \in Blocks :
            Weight(b[1], b[2]) \notin {F, Z} =>
                b \in { SquareBlocks[Weight(b[1], b[2])[2] + 1],
                        << SquareBlocks[Weight(b[1], b[2])[2] + 1][2],
                           SquareBlocks[Weight(b[1], b[2])[2] + 1][1] >> }
    /\ Cardinality(ComputedBlocks) = 8
    /\ \A b \in ComputedBlocks : b[1] >= b[2]
    /\ \A b \in Blocks :
            CornerClass(k, b[1], b[2]) = "Boundary" =>
                (b \in ComputedBlocks \/ << b[2], b[1] >> \in ComputedBlocks)

\* C8 as stated: for every N divisible by 8 the corner rule gives exactly the
\* classification of the table.
C8_CornerRuleAllSizes == TableMatchesCornerRule(SizeInt)

\* C8, amended: the same for every N divisible by 8 from 48 on (B >= 6).
C8_CornerRuleFromSize48 == SizeInt \div 8 >= 6 => TableMatchesCornerRule(SizeInt)

C8_Witness == SizeIs(48) /\ pc = "done"

\* C9: get_total has read square i only after its dispatch completed, its
\* copy completed and its map signalled completion.
C9_ReadAfterCompletion ==
    \A i \in Squares :
        i < Len(totals) => (KernelDone(i) /\ CopyDone(i) /\ mapState[i] = "mapped")

C9_Witness ==
    /\ Len(totals) = 3
    /\ SizeIs(128)
    /\ pc = "read"

CopiesIssued == \E k \in 1 .. Len(encoder \o queue) : (encoder \o queue)[k].op = "copy"

HostBlocked == Running /\ ~ENABLED HostNext

\* C10 as stated: (a) no copy is issued before the backend has completed the 8
\* dispatches; (b) no byte is read before the maps have signalled completion.
C10_HostWaitsBeforeCopies ==
    /\ CopiesIssued => \A i \in Squares : KernelDone(i)
    /\ totals # << >> => \A i \in Squares : mapState[i] = "mapped"

\* C10, amended: the host blocks at one point only, poll_all; the copies are
\* recorded with the dispatches and submitted together, and it is the device
\* that runs each copy after the dispatches; past poll_all everything
\* submitted has completed and every map has signalled completion.
C10_HostBlocksAtPollOnly ==
    /\ HostBlocked => pc = "poll"
    /\ pc \in {"encode_copy", "submit"} => executed = {}
    /\ \A i \in Squares : CopyDone(i) => KernelDone(i)
    /\ pc \in {"read", "aggregate", "print", "done"} =>
            /\ DeviceIdle
            /\ \A i \in Squares : mapState[i] = "mapped"
    /\ totals # << >> => \A i \in Squares : mapState[i] = "mapped"

C10_Witness ==
    /\ HostBlocked
    /\ SizeIs(128)
    /\ \E i \in Squares : ~KernelDone(i)

====
